---- MODULE Spec2Model ----
(***************************************************************************)
(* Model of nuget-dl (src/src/lib.rs): the cache resolver download_package *)
(* with its metadata fetcher (get_package_hash), digest check              *)
(* (package_matches_hash) and content fetcher (download_package_bytes /    *)
(* download_package_overwrite), run against a registry and a file system   *)
(* that may fail.                                                          *)
(*                                                                         *)
(* Strings are sequences of ASCII codes, byte vectors are sequences of     *)
(* numbers 0..255.  SHA-512 is abstracted to a collision-free digest of    *)
(* HashLen bytes over the contents the model uses.                         *)
(***************************************************************************)
EXTENDS Integers, Sequences, FiniteSets, TLC

\* ------------------------------------------------------------------ bounds

\* Longest file content an external writer puts at the artifact path.
MaxLen == 2

\* Length of the abstract digest: long enough to be collision-free on
\* contents of at most MaxLen bytes.
HashLen == MaxLen + 1

Procs == {"A", "B"}

Bytes == 0..1

RECURSIVE SeqsUpTo(_, _)
SeqsUpTo(S, n) ==
    IF n = 0 THEN {<<>>}
    ELSE LET shorter == SeqsUpTo(S, n - 1)
         IN  shorter \cup {Append(s, x) : s \in {t \in shorter : Len(t) = n - 1}, x \in S}

\* Contents an external writer may leave at the artifact path.
Contents == SeqsUpTo(Bytes, MaxLen)

\* ------------------------------------------------------------- strings

STR_SHA512 == <<83, 72, 65, 53, 49, 50>>        \* "SHA512"
STR_sha512 == <<115, 104, 97, 53, 49, 50>>      \* "sha512"
STR_Sha512 == <<83, 104, 97, 53, 49, 50>>       \* "Sha512"
STR_sHa512 == <<115, 72, 97, 53, 49, 50>>       \* "sHa512"
STR_MD5    == <<77, 68, 53>>                    \* "MD5"

\* Algorithm names the registry may report.
AlgNames == {STR_SHA512, STR_sha512, STR_Sha512, STR_sHa512, STR_MD5}

ToLowerChar(c) == IF c >= 65 /\ c <= 90 THEN c + 32 ELSE c

ToLower(s) == [i \in 1..Len(s) |-> ToLowerChar(s[i])]

\* HashAlgorithm: the SHA512 variant, or Unknown carrying the raw name.
AlgSHA512 == [tag |-> "SHA512", name |-> <<>>]

AlgUnknown(string) == [tag |-> "Unknown", name |-> string]

\* HashAlgorithm::from_string: an exact match on two spellings.
from_string(string) ==
    IF string = STR_SHA512 \/ string = STR_sha512
    THEN AlgSHA512
    ELSE AlgUnknown(string)

\* ------------------------------------------------------------- base64

\* Value of a character of the standard alphabet; 64 for '=', -1 for any
\* other character.
B64Val(c) ==
    IF c >= 65 /\ c <= 90 THEN c - 65
    ELSE IF c >= 97 /\ c <= 122 THEN c - 71
    ELSE IF c >= 48 /\ c <= 57 THEN c + 4
    ELSE IF c = 43 THEN 62
    ELSE IF c = 47 THEN 63
    ELSE IF c = 61 THEN 64
    ELSE -1

B64Char(v) ==
    IF v <= 25 THEN v + 65
    ELSE IF v <= 51 THEN v + 71
    ELSE IF v <= 61 THEN v - 4
    ELSE IF v = 62 THEN 43
    ELSE 47

\* The registry's encoding of a digest: standard alphabet, '=' padding.
RECURSIVE Base64Encode(_)
Base64Encode(b) ==
    IF Len(b) = 0 THEN <<>>
    ELSE IF Len(b) = 1 THEN
        <<B64Char(b[1] \div 4), B64Char((b[1] % 4) * 16), 61, 61>>
    ELSE IF Len(b) = 2 THEN
        <<B64Char(b[1] \div 4),
          B64Char((b[1] % 4) * 16 + b[2] \div 16),
          B64Char((b[2] % 16) * 4), 61>>
    ELSE
        <<B64Char(b[1] \div 4),
          B64Char((b[1] % 4) * 16 + b[2] \div 16),
          B64Char((b[2] % 16) * 4 + b[3] \div 64),
          B64Char(b[3] % 64)>> \o Base64Encode(SubSeq(b, 4, Len(b)))

DecodeErr == [ok |-> FALSE, bytes |-> <<>>]

DecodeOk(b) == [ok |-> TRUE, bytes |-> b]

\* One group of four characters; last says whether padding may appear.
DecodeQuad(q, last) ==
    LET v == [i \in 1..4 |-> B64Val(q[i])]
    IN  IF \E i \in 1..4 : v[i] = -1 THEN DecodeErr
        ELSE IF v[1] = 64 \/ v[2] = 64 THEN DecodeErr
        ELSE IF v[3] = 64 THEN
            IF last /\ v[4] = 64 /\ v[2] % 16 = 0
            THEN DecodeOk(<<v[1] * 4 + v[2] \div 16>>)
            ELSE DecodeErr
        ELSE IF v[4] = 64 THEN
            IF last /\ v[3] % 4 = 0
            THEN DecodeOk(<<v[1] * 4 + v[2] \div 16, (v[2] % 16) * 16 + v[3] \div 4>>)
            ELSE DecodeErr
        ELSE DecodeOk(<<v[1] * 4 + v[2] \div 16,
                        (v[2] % 16) * 16 + v[3] \div 4,
                        (v[3] % 4) * 64 + v[4]>>)

\* base64::decode of a padded string: Err on a character outside the
\* alphabet, misplaced padding, non-zero trailing bits or a length that is
\* not a multiple of four.
RECURSIVE Base64Decode(_)
Base64Decode(s) ==
    IF Len(s) = 0 THEN DecodeOk(<<>>)
    ELSE IF Len(s) < 4 THEN DecodeErr
    ELSE LET head == DecodeQuad(SubSeq(s, 1, 4), Len(s) = 4)
             tail == Base64Decode(SubSeq(s, 5, Len(s)))
         IN  IF head.ok /\ tail.ok THEN DecodeOk(head.bytes \o tail.bytes)
             ELSE DecodeErr

\* ------------------------------------------------------------- digest

\* Sha512::new / update / finalize, abstracted: a digest of HashLen bytes
\* that differs for any two contents of at most MaxLen bytes.
Sha512(bytes) ==
    [i \in 1..HashLen |->
        IF i = 1 THEN (Len(bytes) * 37 + 11) % 256
        ELSE IF i - 1 <= Len(bytes) THEN (bytes[i - 1] * 151 + 7 * i + 13) % 256
        ELSE 0]

Min(a, b) == IF a < b THEN a ELSE b

\* Variants of the comparison that a slip in the loop would give.
HashesNeverEqual(reference_hash, file_hash) == FALSE

HashesAlwaysEqual(reference_hash, file_hash) == TRUE

\* The comparison loop: zip stops at the end of the shorter sequence.
HashesEqual(reference_hash, file_hash) ==
    \A i \in 1..Min(Len(reference_hash), Len(file_hash)) :
        reference_hash[i] = file_hash[i]

\* ------------------------------------------------------------- registry

\* Package contents the registry may serve.
RegContents == {<<0>>, <<0, 1>>}

\* Body the content endpoint sends with a non-success status.
ErrorBody == <<2>>

\* Digest strings the metadata document may carry: the encoded digest of a
\* content, that digest cut by one byte, the empty string, and a string
\* that is not base64.
HashStrings ==
    {Base64Encode(Sha512(c)) : c \in RegContents}
        \cup {Base64Encode(SubSeq(Sha512(c), 1, HashLen - 1)) : c \in RegContents}
        \cup {<<>>, <<33, 33, 33, 33>>}

StatusCodes == {200, 404}

\* Shapes of the metadata document other than the complete one: a field
\* missing from a well-formed document, or markup the reader rejects at
\* some place relative to the two fields.
OtherDocs ==
    {"no_hash", "no_alg", "no_fields",
     "error_first", "error_in_hash", "error_between", "error_after"}

\* Every answer with the complete document, and one answer for each of the
\* other documents.
Registries ==
    [content : RegContents, hash : HashStrings, alg : AlgNames,
     status : StatusCodes, doc : {"full"}]
        \cup [content : {<<0>>}, hash : {Base64Encode(Sha512(<<0>>))},
              alg : {STR_SHA512}, status : {200}, doc : OtherDocs]

\* ------------------------------------------------------------- metadata

\* The events EventReader yields.  The iterator ends after EndDocument and
\* after the first error.
StartDocument == [kind |-> "start_document", name |-> "", text |-> <<>>]

StartElement(name) == [kind |-> "start_element", name |-> name, text |-> <<>>]

Characters(text) == [kind |-> "characters", name |-> "", text |-> text]

EndElement == [kind |-> "end_element", name |-> "", text |-> <<>>]

EndDocument == [kind |-> "end_document", name |-> "", text |-> <<>>]

ReaderError == [kind |-> "error", name |-> "", text |-> <<>>]

\* An element with its text; an empty text gives no Characters event.
Element(name, text) ==
    IF Len(text) = 0
    THEN <<StartElement(name), EndElement>>
    ELSE <<StartElement(name), Characters(text), EndElement>>

\* The events of the document the metadata endpoint answers with.
Document(reg) ==
    LET open == <<StartDocument, StartElement("entry")>>
        close == <<EndElement, EndDocument>>
        hash == Element("PackageHash", reg.hash)
        alg == Element("PackageHashAlgorithm", reg.alg)
        other == Element("Version", <<49>>)
    IN  CASE reg.doc = "full" -> open \o other \o hash \o alg \o close
          [] reg.doc = "no_hash" -> open \o other \o alg \o close
          [] reg.doc = "no_alg" -> open \o hash \o other \o close
          [] reg.doc = "no_fields" -> open \o other \o close
          [] reg.doc = "error_first" -> open \o <<ReaderError>>
          [] reg.doc = "error_in_hash" ->
                open \o <<StartElement("PackageHash"), ReaderError>>
          [] reg.doc = "error_between" -> open \o hash \o <<ReaderError>>
          [] reg.doc = "error_after" -> open \o hash \o alg \o <<ReaderError>>

None == [some |-> FALSE, text |-> <<>>]

Some(text) == [some |-> TRUE, text |-> text]

\* get_text
get_text(event) ==
    IF event.kind = "characters" THEN Some(event.text) ELSE None

\* event_iter.next().unwrap().unwrap(), then get_text(..).unwrap(): the
\* text of the event after a start tag; None stands for a panic.
NextText(events, i) ==
    IF i + 1 > Len(events) THEN None
    ELSE IF events[i + 1].kind = "error" THEN None
    ELSE get_text(events[i + 1])

\* A variant of expect that hands the caller an error.
ExpectErr(option) == IF option.some THEN "ok" ELSE "err"

\* Option::expect: the value, or a panic.
Expect(option) == IF option.some THEN "ok" ELSE "panic"

HashResult(outcome, hash, algorithm) ==
    [outcome |-> outcome, hash |-> hash, algorithm |-> algorithm]

\* The scanning loop of get_package_hash from event i on, and what
\* follows it.  Events that are no start tag, errors among them, are skipped.
RECURSIVE Scan(_, _, _, _)
Scan(events, i, package_hash, package_hash_algorithm) ==
    IF i > Len(events) THEN
        IF Expect(package_hash) # "ok"
        THEN HashResult(Expect(package_hash), <<>>, <<>>)
        ELSE IF Expect(package_hash_algorithm) # "ok"
        THEN HashResult(Expect(package_hash_algorithm), <<>>, <<>>)
        ELSE HashResult("ok", package_hash.text, package_hash_algorithm.text)
    ELSE IF events[i].kind = "start_element" /\ events[i].name = "PackageHash" THEN
        IF NextText(events, i).some
        THEN Scan(events, i + 2, NextText(events, i), package_hash_algorithm)
        ELSE HashResult("panic", <<>>, <<>>)
    ELSE IF events[i].kind = "start_element"
            /\ events[i].name = "PackageHashAlgorithm" THEN
        IF NextText(events, i).some
        THEN Scan(events, i + 2, package_hash, NextText(events, i))
        ELSE HashResult("panic", <<>>, <<>>)
    ELSE Scan(events, i + 1, package_hash, package_hash_algorithm)

\* get_package_hash on the text of an answered request.
get_package_hash(events) == Scan(events, 1, None, None)

\* ------------------------------------------------------------- state

VARIABLES
    fs,          \* the target directory and the artifact path in it
    registry,    \* what the two endpoints answer at the moment
    call,        \* per caller: the position and locals of its download_package
    origin,      \* history: who wrote the artifact's bytes last
    prev,        \* history: the call that returned last, if nothing outside
                 \* the program has changed the directory or the registry since
    bulk,        \* a run of nuget_packages! or process_nuget over its entries
    disk         \* the packages directory of that run, by file name

vars == <<fs, registry, call, origin, prev, bulk, disk>>

NoFile(dir) == [dir |-> dir, exists |-> FALSE, bytes |-> <<>>]

AFile(bytes) == [dir |-> TRUE, exists |-> TRUE, bytes |-> bytes]

NoHash == [hash |-> <<>>, algorithm |-> AlgSHA512]

IdleCall ==
    [pc |-> "idle", existed |-> FALSE, events |-> <<>>, check |-> "none",
     check_err |-> "none", hash |-> NoHash, reference_hash |-> <<>>,
     file_hash |-> <<>>, bytes |-> <<>>, status |-> 0, result |-> "none",
     err |-> "none", fault |-> FALSE, fs0 |-> NoFile(FALSE),
     origin0 |-> "none", meta |-> "none", pos |-> 0]

NoPrev ==
    [valid |-> FALSE, existed |-> FALSE, fetches |-> 0, result |-> "none",
     fault |-> FALSE]

\* ------------------------------------------------------------- packages

\* Most entries a bulk run lists.
MaxEntries == 3

Identity(name, version) == [name |-> name, version |-> version]

\* ("a.b", "c"), ("a", "b.c") and ("b", "c").
Identities ==
    {Identity(<<97, 46, 98>>, <<99>>),
     Identity(<<97>>, <<98, 46, 99>>),
     Identity(<<98>>, <<99>>)}

\* format!("{package_name}.{version}.nupkg")
get_package_file_name(package_name, version) ==
    package_name \o <<46>> \o version \o <<46, 110, 117, 112, 107, 103>>

PathOf(id) == get_package_file_name(id.name, id.version)

Paths == {PathOf(id) : id \in Identities}

Absent == [exists |-> FALSE, bytes |-> <<>>]

Present(bytes) == [exists |-> TRUE, bytes |-> bytes]

EmptyDisk == [path \in Paths |-> Absent]

NoBulk ==
    [kind |-> "none", entries |-> <<>>, called |-> <<>>, outcomes |-> <<>>,
     files |-> <<>>, result |-> "none"]

Count(events, e) == Cardinality({i \in 1..Len(events) : events[i] = e})

Init ==
    /\ fs \in {NoFile(FALSE), NoFile(TRUE)} \cup {AFile(c) : c \in Contents}
    /\ registry \in Registries
    /\ call = [p \in Procs |-> IdleCall]
    /\ origin = IF fs.exists THEN "external" ELSE "none"
    /\ prev = NoPrev
    /\ bulk = NoBulk
    /\ disk = EmptyDisk

Set(p, fields) ==
    [call EXCEPT ![p] = [f \in DOMAIN call[p] |->
        IF f \in DOMAIN fields THEN fields[f] ELSE call[p][f]]]

\* ------------------------------------------------------------- download_package

\* Variants of the three branches of download_package.
AlwaysGetHash(exists) == "get_hash"

PropagateCheckError(check) ==
    IF check = "true" THEN "open" ELSE IF check = "err" THEN "done" ELSE "fetch"

AlwaysFetch(check) == "fetch"

AnyHasher(algorithm) == TRUE

\* path.exists() decides whether the digest check runs at all.
AfterExists(exists) == IF exists THEN "get_hash" ELSE "fetch"

\* unwrap_or(false), then the branch on !matches: only Ok(true) opens the
\* existing file.
AfterCheck(check) == IF check = "true" THEN "open" ELSE "fetch"

\* What download_package does once package_matches_hash has returned
\* check, with error check_err when check is "err".
Checked(check, check_err) ==
    LET pc == AfterCheck(check)
    IN  [check |-> check, check_err |-> check_err, pc |-> pc,
         result |-> IF pc = "done" THEN "err" ELSE "none",
         err |-> IF pc = "done" THEN check_err ELSE "none"]

\* The match on hash.algorithm: TRUE when a hasher is made, FALSE on the
\* early return Ok(false).
HasHasher(algorithm) == algorithm.tag = "SHA512"

\* download_package_bytes: the body is returned whatever the status is.
ResponseBytes(reg) == IF reg.status = 200 THEN reg.content ELSE ErrorBody

BytesResult(reg) == "ok"

\* One caller at a time.
AllIdle == \A q \in Procs : call[q].pc = "idle"

\* download_package up to the path.exists() test.
StartCall(p) ==
    /\ AllIdle
    /\ call' = Set(p, [pc |-> AfterExists(fs.exists), existed |-> fs.exists,
                       fs0 |-> fs, origin0 |-> origin])
    /\ UNCHANGED <<fs, registry, origin, prev, bulk, disk>>

\* get_package_hash fails in transport: package_matches_hash returns Err.
GetPackageHashFails(p) ==
    /\ call[p].pc = "get_hash"
    /\ call' = Set(p, [events |-> Append(call[p].events, "metadata"),
                       fault |-> TRUE] @@ Checked("err", "metadata_transport"))
    /\ UNCHANGED <<fs, registry, origin, prev, bulk, disk>>

\* get_package_hash answers; base64::decode and the algorithm match follow.
GetPackageHash(p) ==
    /\ call[p].pc = "get_hash"
    /\ LET got == get_package_hash(Document(registry))
           hash == [hash |-> got.hash, algorithm |-> from_string(got.algorithm)]
           decoded == Base64Decode(hash.hash)
           check == IF ~decoded.ok THEN "err"
                    ELSE IF ~HasHasher(hash.algorithm) THEN "false"
                    ELSE "none"
           asked == [events |-> Append(call[p].events, "metadata"),
                     meta |-> got.outcome]
           base == asked @@ [hash |-> hash, reference_hash |-> decoded.bytes]
       IN  call' = IF got.outcome = "panic"
                   THEN Set(p, asked @@ [pc |-> "panicked", result |-> "panic"])
                   ELSE IF got.outcome = "err"
                   THEN Set(p, asked @@ Checked("err", "parse"))
                   ELSE IF check = "none"
                   THEN Set(p, base @@ [pc |-> "read_file"])
                   ELSE Set(p, base @@ Checked(check,
                                   IF check = "err" THEN "decode" ELSE "none"))
    /\ UNCHANGED <<fs, registry, origin, prev, bulk, disk>>

\* File::open or read_to_end of the existing file fails.
ReadFileFails(p) ==
    /\ call[p].pc = "read_file"
    /\ call' = Set(p, [fault |-> fs.exists] @@ Checked("err", "read"))
    /\ UNCHANGED <<fs, registry, origin, prev, bulk, disk>>

\* The file is read and hashed and the two digests are compared.
ReadFile(p) ==
    /\ call[p].pc = "read_file"
    /\ fs.exists
    /\ LET file_hash == Sha512(fs.bytes)
           check == IF HashesEqual(call[p].reference_hash, file_hash)
                    THEN "true" ELSE "false"
       IN  call' = Set(p, [file_hash |-> file_hash] @@ Checked(check, "none"))
    /\ UNCHANGED <<fs, registry, origin, prev, bulk, disk>>

\* The matching branch: File::open(&path).
OpenExisting(p) ==
    /\ call[p].pc = "open"
    /\ \/ /\ fs.exists
          /\ call' = Set(p, [pc |-> "done", result |-> "ok"])
       \/ call' = Set(p, [pc |-> "done", result |-> "err", err |-> "open",
                          fault |-> fs.exists])
    /\ UNCHANGED <<fs, registry, origin, prev, bulk, disk>>

\* ------------------------------------------------ download_package_overwrite

\* A variant in which the directory is made before the content request.
DownloadBytesFailsAfterMkdir(p) ==
    /\ call[p].pc = "fetch"
    /\ call' = Set(p, [events |-> Append(call[p].events, "content"),
                       pc |-> "done", result |-> "err", err |-> "content_transport",
                       fault |-> TRUE])
    /\ fs' = [fs EXCEPT !.dir = TRUE]
    /\ UNCHANGED <<registry, origin, prev, bulk, disk>>

\* download_package_bytes: the content request fails in transport.
DownloadBytesFails(p) ==
    /\ call[p].pc = "fetch"
    /\ call' = Set(p, [events |-> Append(call[p].events, "content"),
                       pc |-> "done", result |-> "err", err |-> "content_transport",
                       fault |-> TRUE])
    /\ UNCHANGED <<fs, registry, origin, prev, bulk, disk>>

\* download_package_bytes: the content endpoint answers.
DownloadBytes(p) ==
    /\ call[p].pc = "fetch"
    /\ IF BytesResult(registry) = "ok"
       THEN call' = Set(p, [events |-> Append(call[p].events, "content"),
                            bytes |-> ResponseBytes(registry),
                            status |-> registry.status, pc |-> "mkdir"])
       ELSE call' = Set(p, [events |-> Append(call[p].events, "content"),
                            status |-> registry.status,
                            pc |-> "done", result |-> "err", err |-> "status"])
    /\ UNCHANGED <<fs, registry, origin, prev, bulk, disk>>

\* std::fs::create_dir_all.
CreateDirAll(p) ==
    /\ call[p].pc = "mkdir"
    /\ \/ /\ call' = Set(p, [pc |-> "create"])
          /\ fs' = [fs EXCEPT !.dir = TRUE]
       \/ /\ ~fs.dir
          /\ call' = Set(p, [pc |-> "done", result |-> "err", err |-> "mkdir",
                             fault |-> TRUE])
          /\ fs' = fs
    /\ UNCHANGED <<registry, origin, prev, bulk, disk>>

\* File::create: creates the file or truncates it to length zero.
FileCreate(p) ==
    /\ call[p].pc = "create"
    /\ \/ /\ fs.dir
          /\ call' = Set(p, [pc |-> "write"])
          /\ fs' = [fs EXCEPT !.exists = TRUE, !.bytes = <<>>]
          /\ origin' = "partial"
       \/ /\ call' = Set(p, [pc |-> "done", result |-> "err", err |-> "create",
                             fault |-> fs.dir])
          /\ UNCHANGED <<fs, origin>>
    /\ UNCHANGED <<registry, prev, bulk, disk>>

\* What write_all has put in the file after k bytes went through.
Written(old, bytes, k) ==
    SubSeq(bytes, 1, k) \o SubSeq(old, k + 1, Len(old))

\* file.write_all(&bytes): all bytes, or an error after some of them.
WriteAll(p) ==
    /\ call[p].pc = "write"
    /\ \/ /\ call' = Set(p, [pc |-> "done", result |-> "ok"])
          /\ fs' = [fs EXCEPT !.bytes = Written(fs.bytes, call[p].bytes, Len(call[p].bytes))]
          /\ origin' = "download"
       \/ \E k \in 0..(Len(call[p].bytes) - 1) :
            /\ call' = Set(p, [pc |-> "done", result |-> "err", err |-> "write",
                               fault |-> TRUE])
            /\ fs' = [fs EXCEPT !.bytes = Written(fs.bytes, call[p].bytes, k)]
            /\ origin' = "partial"
    /\ UNCHANGED <<registry, prev, bulk, disk>>

\* download_package returns to its caller.
Return(p) ==
    /\ call[p].pc = "done"
    /\ prev' = [valid |-> TRUE, existed |-> call[p].existed,
                fetches |-> Count(call[p].events, "content"),
                result |-> call[p].result, fault |-> call[p].fault]
    /\ call' = [call EXCEPT ![p] = IdleCall]
    /\ UNCHANGED <<fs, registry, origin, bulk, disk>>

\* ------------------------------------------------------------- environment

\* The directory and the registry change only between calls; a change
\* forgets the call that returned last.

\* Something else alters the bytes of the artifact.
Corrupt ==
    /\ AllIdle
    /\ fs.exists
    /\ \E c \in Contents \ {fs.bytes} : fs' = [fs EXCEPT !.bytes = c]
    /\ origin' = IF origin \in {"download", "altered"} THEN "altered" ELSE "external"
    /\ prev' = NoPrev
    /\ UNCHANGED <<registry, call, bulk, disk>>

\* External cleanup removes the artifact.
Remove ==
    /\ AllIdle
    /\ fs.exists
    /\ fs' = NoFile(TRUE)
    /\ origin' = "none"
    /\ prev' = NoPrev
    /\ UNCHANGED <<registry, call, bulk, disk>>

\* The registry starts answering differently.
RegistryChange ==
    /\ AllIdle
    /\ \E r \in Registries \ {registry} : registry' = r
    /\ prev' = NoPrev
    /\ UNCHANGED <<fs, origin, call, bulk, disk>>

Next ==
    \/ \E p \in Procs :
        \/ StartCall(p)
        \/ GetPackageHashFails(p)
        \/ GetPackageHash(p)
        \/ ReadFileFails(p)
        \/ ReadFile(p)
        \/ OpenExisting(p)
        \/ DownloadBytesFails(p)
        \/ DownloadBytes(p)
        \/ CreateDirAll(p)
        \/ FileCreate(p)
        \/ WriteAll(p)
        \/ Return(p)
    \/ Corrupt
    \/ Remove
    \/ RegistryChange

Spec == Init /\ [][Next]_vars

\* ------------------------------------------------------------- concurrent calls

\* Two callers resolve the same package in the same directory with no
\* coordination.  write_all is a loop of writes at the handle's position,
\* so the other caller may act between two of them.

\* Contents served to the two callers; one starts with a byte that a hole
\* in the file cannot be taken for.
ConcContents == RegContents \cup {<<1, 1>>}

\* The registry serves, with a success status, a content and its digest.
ConsistentRegistries ==
    {[content |-> c, hash |-> Base64Encode(Sha512(c)), alg |-> a,
      status |-> 200, doc |-> "full"] : c \in ConcContents, a \in AlgNames}

ConcInit ==
    /\ fs \in {NoFile(FALSE), NoFile(TRUE)} \cup {AFile(c) : c \in Contents}
    /\ registry \in ConsistentRegistries
    /\ call = [p \in Procs |-> IdleCall]
    /\ origin = IF fs.exists THEN "external" ELSE "none"
    /\ prev = NoPrev
    /\ bulk = NoBulk
    /\ disk = EmptyDisk

\* download_package up to the path.exists() test, whatever the other
\* caller is doing.
ConcStart(p) ==
    /\ call[p].pc = "idle"
    /\ call' = Set(p, [pc |-> AfterExists(fs.exists), existed |-> fs.exists,
                       fs0 |-> fs, origin0 |-> origin])
    /\ UNCHANGED <<fs, registry, origin, prev, bulk, disk>>

Zeros(n) == [i \in 1..n |-> 0]

\* A handle that appends instead of writing at its own position.
WriteAppend(old, pos, data) == old \o data

\* The file after data is written at offset pos: a write past the end
\* leaves a hole of zero bytes.
WriteAt(old, pos, data) ==
    LET padded == IF Len(old) < pos THEN old \o Zeros(pos - Len(old)) ELSE old
    IN  SubSeq(padded, 1, pos) \o data
            \o SubSeq(padded, pos + Len(data) + 1, Len(padded))

\* One write of write_all's loop that is not the last: one more byte.
ConcWriteSome(p) ==
    /\ call[p].pc = "write"
    /\ call[p].pos + 1 < Len(call[p].bytes)
    /\ call' = Set(p, [pos |-> call[p].pos + 1])
    /\ fs' = [fs EXCEPT !.bytes =
                WriteAt(fs.bytes, call[p].pos, <<call[p].bytes[call[p].pos + 1]>>)]
    /\ origin' = "partial"
    /\ UNCHANGED <<registry, prev, bulk, disk>>

\* The last write of write_all's loop: the rest of the bytes.
ConcWriteRest(p) ==
    /\ call[p].pc = "write"
    /\ call' = Set(p, [pos |-> Len(call[p].bytes), pc |-> "done", result |-> "ok"])
    /\ fs' = [fs EXCEPT !.bytes =
                WriteAt(fs.bytes, call[p].pos,
                        SubSeq(call[p].bytes, call[p].pos + 1, Len(call[p].bytes)))]
    /\ origin' = "download"
    /\ UNCHANGED <<registry, prev, bulk, disk>>

\* A write of write_all's loop fails.
ConcWriteFails(p) ==
    /\ call[p].pc = "write"
    /\ call[p].pos < Len(call[p].bytes)
    /\ call' = Set(p, [pc |-> "done", result |-> "err", err |-> "write",
                       fault |-> TRUE])
    /\ UNCHANGED <<fs, registry, origin, prev, bulk, disk>>

ConcNext ==
    \E p \in Procs :
        \/ ConcStart(p)
        \/ GetPackageHashFails(p)
        \/ GetPackageHash(p)
        \/ ReadFileFails(p)
        \/ ReadFile(p)
        \/ OpenExisting(p)
        \/ DownloadBytesFails(p)
        \/ DownloadBytes(p)
        \/ CreateDirAll(p)
        \/ FileCreate(p)
        \/ ConcWriteSome(p)
        \/ ConcWriteRest(p)
        \/ ConcWriteFails(p)

SpecConc == ConcInit /\ [][ConcNext]_vars

\* ------------------------------------------------------------- bulk runs

\* What the registry holds for a package: a content of its own, reported
\* with its digest under the name "SHA512".
ContentOf(id) ==
    CASE id.name = <<97, 46, 98>> -> <<0>>
      [] id.name = <<97>> -> <<0, 1>>
      [] OTHER -> <<1>>

RegistryFor(id) ==
    [content |-> ContentOf(id), hash |-> Base64Encode(Sha512(ContentOf(id))),
     alg |-> STR_SHA512, status |-> 200, doc |-> "full"]

\* package_matches_hash on an answered metadata request and a readable file.
package_matches_hash(reg, file) ==
    LET got == get_package_hash(Document(reg))
        decoded == Base64Decode(got.hash)
    IN  IF got.outcome # "ok" THEN got.outcome
        ELSE IF ~decoded.ok THEN "err"
        ELSE IF ~HasHasher(from_string(got.algorithm)) THEN "false"
        ELSE IF HashesEqual(decoded.bytes, Sha512(file.bytes)) THEN "true"
        ELSE "false"

\* What goes wrong in one call of a bulk run.
Faults == {"none", "fetch", "write"}

\* download_package as one step: its result and the file it leaves.
download_package(file, reg, fault) ==
    LET first == AfterExists(file.exists)
        step == IF first = "get_hash"
                THEN AfterCheck(package_matches_hash(reg, file))
                ELSE first
    IN  IF step = "open" THEN [result |-> "ok", file |-> file]
        ELSE IF step # "fetch" \/ fault = "fetch" THEN [result |-> "err", file |-> file]
        ELSE IF fault = "write" THEN [result |-> "err", file |-> Present(<<>>)]
        ELSE [result |-> "ok", file |-> Present(ResponseBytes(reg))]

\* A variant of the ? after download_package that drops the error.
IgnoreEntryError(result) == "running"

\* The ? after download_package: the first error ends the run.
AfterEntry(result) == IF result = "ok" THEN "running" ELSE "err"

\* The macro lists any entries; the dependencies table of a
\* configuration has one version per name, in the map's order.
EntryLists(kind) ==
    IF kind = "macro" THEN SeqsUpTo(Identities, MaxEntries)
    ELSE {e \in SeqsUpTo(Identities, MaxEntries) :
            \A i, j \in 1..Len(e) : e[i].name = e[j].name => i = j}

BulkInit ==
    /\ fs = NoFile(FALSE)
    /\ registry = RegistryFor(Identity(<<97, 46, 98>>, <<99>>))
    /\ call = [p \in Procs |-> IdleCall]
    /\ origin = "none"
    /\ prev = NoPrev
    /\ \E kind \in {"macro", "config"} : \E e \in EntryLists(kind) :
            bulk = [kind |-> kind, entries |-> e, called |-> <<>>,
                    outcomes |-> <<>>, files |-> <<>>, result |-> "running"]
    /\ disk \in [Paths -> {Absent, Present(<<1, 1>>)}]

\* process_nuget cannot read or parse its configuration file.
ConfigFails ==
    /\ bulk.kind = "config"
    /\ bulk.result = "running"
    /\ bulk.called = <<>>
    /\ bulk' = [bulk EXCEPT !.result = "config_err"]
    /\ UNCHANGED <<fs, registry, call, origin, prev, disk>>

\* One entry: download_package(name, version, &packages_dir)? and push.
BulkDownload ==
    /\ bulk.result = "running"
    /\ Len(bulk.called) < Len(bulk.entries)
    /\ \E fault \in Faults :
        LET id == bulk.entries[Len(bulk.called) + 1]
            path == PathOf(id)
            r == download_package(disk[path], RegistryFor(id), fault)
        IN  /\ disk' = [disk EXCEPT ![path] = r.file]
            /\ bulk' = [bulk EXCEPT
                    !.called = Append(@, id),
                    !.outcomes = Append(@, r.result),
                    !.files = IF r.result = "ok" THEN Append(@, path) ELSE @,
                    !.result = AfterEntry(r.result)]
    /\ UNCHANGED <<fs, registry, call, origin, prev>>

\* Ok(files) after the last entry.
BulkReturn ==
    /\ bulk.result = "running"
    /\ Len(bulk.called) = Len(bulk.entries)
    /\ bulk' = [bulk EXCEPT !.result = "ok"]
    /\ UNCHANGED <<fs, registry, call, origin, prev, disk>>

BulkNext ==
    \/ ConfigFails
    \/ BulkDownload
    \/ BulkReturn

SpecBulk == BulkInit /\ [][BulkNext]_vars

\* ------------------------------------------------------------- properties

Done(p) == call[p].pc = "done"

Fetches(p) == Count(call[p].events, "content")

MetadataRequests(p) == Count(call[p].events, "metadata")

\* The registry serves, with a success status, the content whose digest
\* its metadata reports.
ConsistentDigest ==
    /\ registry.status = 200
    /\ Base64Decode(registry.hash) = DecodeOk(Sha512(registry.content))

\* ... and names the algorithm "SHA512" or "sha512".
ConsistentRegistry ==
    /\ ConsistentDigest
    /\ registry.alg \in {STR_SHA512, STR_sha512}

\* C1: with a consistent registry and no failing request or file
\* operation, when a call that started without the artifact is followed
\* by a second call with no external change in between, the first call
\* made exactly one content request and the second makes none.
C1_TwoCallsOneFetch ==
    \A p \in Procs :
        (/\ Done(p)
         /\ prev.valid /\ ~prev.existed /\ ~prev.fault
         /\ ~call[p].fault
         /\ ConsistentRegistry)
        => /\ prev.fetches = 1
           /\ prev.result = "ok"
           /\ Fetches(p) = 0
           /\ call[p].result = "ok"

C1_Witness ==
    \E p \in Procs :
        /\ Done(p)
        /\ prev.valid /\ ~prev.existed /\ ~prev.fault /\ prev.fetches = 1
        /\ ~call[p].fault
        /\ ConsistentRegistry
        /\ call[p].existed /\ call[p].check = "true"
        /\ Fetches(p) = 0 /\ call[p].result = "ok"

\* C2: with a registry that serves the content its digest is of, a call
\* that finds the artifact altered after a download, its digest no longer
\* the reported one, does not take it for a match, makes one content
\* request, and when it returns Ok the artifact's digest is the reported
\* digest again.
C2_AlteredFileRestored ==
    \A p \in Procs :
        (/\ Done(p)
         /\ call[p].existed /\ call[p].origin0 = "altered"
         /\ ConsistentDigest
         /\ Sha512(call[p].fs0.bytes) # Base64Decode(registry.hash).bytes)
        => /\ call[p].check # "true"
           /\ Fetches(p) = 1
           /\ call[p].result = "ok" =>
                /\ fs.exists
                /\ fs.bytes = call[p].bytes
                /\ Sha512(fs.bytes) = Base64Decode(registry.hash).bytes

C2_Witness ==
    \E p \in Procs :
        /\ Done(p)
        /\ call[p].existed /\ call[p].origin0 = "altered"
        /\ ConsistentDigest
        /\ Sha512(call[p].fs0.bytes) # Base64Decode(registry.hash).bytes
        /\ call[p].check = "false"
        /\ call[p].result = "ok"
        /\ Sha512(fs.bytes) = Base64Decode(registry.hash).bytes

\* C3: package_matches_hash returns a match only when the decoded
\* registry digest and the computed digest have the same length and the
\* same bytes.
C3_MatchOnlyOnEqualDigests ==
    \A p \in Procs :
        call[p].check = "true" => call[p].reference_hash = call[p].file_hash

\* C4: when the registry reports an algorithm that is HashAlgorithm::Unknown,
\* a call makes one content request, never opens the existing file as a
\* match, and when it returns Ok the artifact holds the fetched bytes.
C4_UnknownAlgorithmRefetches ==
    \A p \in Procs :
        (Done(p) /\ from_string(registry.alg).tag = "Unknown")
        => /\ Fetches(p) = 1
           /\ call[p].check # "true"
           /\ call[p].result = "ok" => (fs.exists /\ fs.bytes = call[p].bytes)

C4_Witness ==
    \E p \in Procs :
        /\ Done(p)
        /\ from_string(registry.alg).tag = "Unknown"
        /\ call[p].existed
        /\ Base64Decode(registry.hash) = DecodeOk(Sha512(call[p].fs0.bytes))
        /\ call[p].check = "false"
        /\ call[p].result = "ok"
        /\ Fetches(p) = 1

\* C5: when the artifact exists and the digest check ends in an error
\* (metadata transport, undecodable digest, open or read of the file), the
\* call goes on to fetch the content, and the error it may return is not
\* the digest check's.
C5_CheckErrorAbsorbed ==
    \A p \in Procs :
        (call[p].existed /\ call[p].check = "err")
        => /\ call[p].pc # "open"
           /\ Done(p) => /\ Fetches(p) = 1
                          /\ call[p].err # call[p].check_err

C5_Witness ==
    \E p \in Procs :
        /\ Done(p)
        /\ call[p].existed /\ call[p].check = "err"
        /\ call[p].check_err = "decode"
        /\ call[p].result = "ok"
        /\ Fetches(p) = 1

\* C6: a content response with a non-success status makes
\* download_package_bytes return an error, so the body of such a response
\* is never what a download wrote into the artifact.
C6_NonSuccessStatusIsError ==
    \A p \in Procs :
        (Done(p) /\ call[p].status # 0 /\ call[p].status # 200)
        => /\ call[p].result = "err"
           /\ ~(fs.exists /\ origin = "download" /\ fs.bytes = call[p].bytes)

\* C7: when a call returns an error, the artifact path is absent or holds
\* a complete file: the bytes it held when the call started, or all the
\* bytes that were fetched.
C7_ErrorLeavesCompleteFile ==
    \A p \in Procs :
        (Done(p) /\ call[p].result = "err")
        => \/ ~fs.exists
           \/ call[p].fs0.exists /\ fs.bytes = call[p].fs0.bytes
           \/ Fetches(p) = 1 /\ call[p].status # 0 /\ fs.bytes = call[p].bytes

\* C8: from_string gives SHA512 for every casing of "sha512", and for any
\* other name gives Unknown carrying the name unchanged.
C8_CaseInsensitiveAlgorithm ==
    \A p \in Procs :
        (MetadataRequests(p) = 1 /\ call[p].check_err # "metadata_transport")
        => IF ToLower(registry.alg) = STR_sha512
           THEN call[p].hash.algorithm = AlgSHA512
           ELSE call[p].hash.algorithm = AlgUnknown(registry.alg)

\* C9: when the artifact exists and its computed digest equals the
\* reported digest, the call makes no content request and the directory
\* and the artifact stay as they were when the call started.
C9_MatchLeavesFileAlone ==
    \A p \in Procs :
        (/\ call[p].existed
         /\ call[p].check = "true"
         /\ call[p].reference_hash = call[p].file_hash)
        => /\ Fetches(p) = 0
           /\ call[p].pc \in {"open", "done"}
           /\ fs = call[p].fs0

C9_Witness ==
    \E p \in Procs :
        /\ Done(p)
        /\ call[p].existed
        /\ call[p].check = "true"
        /\ call[p].reference_hash = call[p].file_hash
        /\ call[p].result = "ok"
        /\ fs = call[p].fs0

\* C10: a call makes at most one metadata request and at most one content
\* request, the metadata request first when it makes both, and a metadata
\* request only when the artifact existed when the call started.
C10_RequestsPerCall ==
    \A p \in Procs :
        /\ MetadataRequests(p) <= 1
        /\ Fetches(p) <= 1
        /\ call[p].events \in {<<>>, <<"metadata">>, <<"content">>,
                                <<"metadata", "content">>}
        /\ MetadataRequests(p) = 1 => call[p].fs0.exists

C10_Witness ==
    \E p \in Procs :
        /\ Done(p)
        /\ call[p].fs0.exists
        /\ call[p].events = <<"metadata", "content">>

\* The reader rejects the document somewhere.
Malformed(events) == \E i \in 1..Len(events) : events[i].kind = "error"

HasElement(events, name) ==
    \E i \in 1..Len(events) :
        events[i].kind = "start_element" /\ events[i].name = name

\* The metadata request of the call has been answered and scanned.
Scanned(p) == call[p].meta # "none"

\* C11: when the metadata document is malformed, wherever the
\* malformation lies, get_package_hash returns an error: it neither returns
\* Ok nor panics.
C11_MalformedDocumentIsError ==
    \A p \in Procs :
        (Scanned(p) /\ Malformed(Document(registry)))
        => /\ call[p].meta = "err"
           /\ call[p].pc # "panicked"

\* C12: when a well-formed metadata document lacks the hash field or the
\* algorithm field, get_package_hash panics; reached from download_package
\* with an existing file, the panic is not turned into a re-download: no
\* content request follows and the artifact stays as it was.
C12_MissingFieldPanics ==
    \A p \in Procs :
        (/\ Scanned(p)
         /\ ~Malformed(Document(registry))
         /\ \/ ~HasElement(Document(registry), "PackageHash")
            \/ ~HasElement(Document(registry), "PackageHashAlgorithm"))
        => /\ call[p].meta = "panic"
           /\ call[p].pc = "panicked"
           /\ call[p].result = "panic"
           /\ Fetches(p) = 0
           /\ fs = call[p].fs0

C12_Witness ==
    \E p \in Procs :
        /\ Scanned(p)
        /\ call[p].existed
        /\ registry.doc = "no_alg"
        /\ HasElement(Document(registry), "PackageHash")
        /\ call[p].pc = "panicked"
        /\ Fetches(p) = 0

\* C14, as claimed: the target directory exists from the moment the
\* content request is issued, also when the fetch fails.
C14_DirectoryBeforeFetch ==
    \A p \in Procs : Fetches(p) = 1 => fs.dir

\* C14, amended: download-and-overwrite first requests the content, then
\* makes the directory, then creates or truncates the artifact, then
\* writes; nothing on disk has changed until the content request is
\* answered, and a failed fetch leaves a missing directory missing.
C14_FetchBeforeDirectory ==
    \A p \in Procs :
        /\ call[p].pc = "fetch" => fs = call[p].fs0
        /\ call[p].pc = "mkdir" =>
                Fetches(p) = 1 /\ call[p].status # 0 /\ fs = call[p].fs0
        /\ call[p].pc = "create" =>
                /\ Fetches(p) = 1
                /\ fs = [call[p].fs0 EXCEPT !.dir = TRUE]
        /\ call[p].pc = "write" =>
                /\ Fetches(p) = 1
                /\ fs = [dir |-> TRUE, exists |-> TRUE, bytes |-> <<>>]
        /\ (Done(p) /\ call[p].err = "content_transport") => fs = call[p].fs0
        /\ (Done(p) /\ call[p].result = "ok" /\ Fetches(p) = 1) =>
                fs = [dir |-> TRUE, exists |-> TRUE, bytes |-> call[p].bytes]

C14_Witness ==
    \E p \in Procs :
        /\ Done(p)
        /\ call[p].err = "content_transport"
        /\ ~call[p].fs0.dir
        /\ ~fs.dir

\* C13: a bulk run calls download_package once for each listed entry, in
\* order; it returns Ok with one file per entry when every call succeeded,
\* and on the first failing call returns the error with no further call,
\* the artifacts of the entries resolved before it still on disk.
C13_BulkOncePerEntry ==
    /\ bulk.called = SubSeq(bulk.entries, 1, Len(bulk.called))
    /\ \A j \in 1..Len(bulk.outcomes) :
          bulk.outcomes[j] = "err" =>
              j = Len(bulk.outcomes) /\ bulk.result = "err"
    /\ bulk.result = "ok" =>
          /\ bulk.called = bulk.entries
          /\ Len(bulk.files) = Len(bulk.entries)
          /\ \A j \in 1..Len(bulk.files) : bulk.files[j] = PathOf(bulk.entries[j])
    /\ bulk.result = "err" =>
          /\ Len(bulk.called) >= 1
          /\ bulk.outcomes[Len(bulk.called)] = "err"
          /\ Len(bulk.files) = Len(bulk.called) - 1
          /\ \A j \in 1..(Len(bulk.called) - 1) :
                disk[PathOf(bulk.entries[j])].exists

C13_Witness ==
    /\ bulk.result = "err"
    /\ Len(bulk.entries) = 3
    /\ Len(bulk.called) = 2
    /\ Len(bulk.files) = 1
    /\ disk[PathOf(bulk.entries[1])] = Present(ContentOf(bulk.entries[1]))

\* C15: two distinct identities never have the same file name, so the
\* artifact of an entry that was resolved keeps that entry's content
\* whatever other identities are resolved after it.
C15_PathInjective ==
    /\ \A i, j \in 1..Len(bulk.called) :
          bulk.called[i] # bulk.called[j] =>
              PathOf(bulk.called[i]) # PathOf(bulk.called[j])
    /\ \A j \in 1..Len(bulk.called) :
          bulk.outcomes[j] = "ok" =>
              disk[PathOf(bulk.called[j])] = Present(ContentOf(bulk.called[j]))

\* C16: with two concurrent calls for the same package against a
\* consistent registry, a digest check ends in a match only on a file that
\* holds the whole content, and once both calls have returned Ok the
\* artifact holds exactly the registry's content.
C16_ConcurrentCalls ==
    /\ \A p \in Procs :
          call[p].check = "true" =>
              call[p].file_hash = Sha512(registry.content)
    /\ (\A p \in Procs : Done(p) /\ call[p].result = "ok") =>
          fs.exists /\ fs.bytes = registry.content

\* Both calls return Ok; one of them found the file the other had created
\* and not yet filled, and fetched the content itself.
C16_Witness ==
    \E p, q \in Procs :
        /\ p # q
        /\ Done(p) /\ call[p].result = "ok"
        /\ Done(q) /\ call[q].result = "ok"
        /\ ~call[p].fs0.exists
        /\ call[q].existed
        /\ call[q].check = "false"
        /\ call[q].file_hash # Sha512(registry.content)
        /\ Fetches(q) = 1
        /\ fs.bytes = registry.content

====
